---- MODULE Spec2Model ----
(***************************************************************************)
(* Model of the three StringLiteral example programs                       *)
(*   src/StringLiteral/CString/CString.cpp                                 *)
(*   src/StringLiteral/EASTLString/EASTLString.cpp                         *)
(*   src/StringLiteral/StringView/StringView.cpp                           *)
(* Each program defines PrankMoe(localised, fullName), which finds the     *)
(* first space of fullName and hands (length, pointer) pairs to printf,    *)
(* and a main that calls it twice.                                         *)
(*                                                                         *)
(* Memory is modelled as sequences of one-character strings.  A buffer is  *)
(* the memory from a pointer to the end of its backing storage; NUL is the *)
(* terminating byte.  An eastl::string and an eastl::string_view are both  *)
(* a record [data |-> buffer, size |-> length].                            *)
(***************************************************************************)
EXTENDS Integers, Sequences, FiniteSets, TLC

VARIABLES pc, frame, calls, stdout, exitCode

vars == <<pc, frame, calls, stdout, exitCode>>

(***************************************************************************)
(* Bounds of the exploration.                                              *)
(***************************************************************************)
MaxNameLen == 3
MaxPieces == 3

Variants == {"CString", "EASTLString", "StringView"}

NUL == "NUL"
NL == "\n"
\* the null pointer: a pointer with no storage behind it
NULL == <<>>

NameChars == {"a", "b", " "}

(***************************************************************************)
(* The "%.*s" directive of the dialogue templates.                         *)
(***************************************************************************)
Placeholder == <<"%", ".", "*", "s">>

TemplatePieces == {<<"s">>, Placeholder}

RECURSIVE Flatten(_)
Flatten(ps) == IF ps = <<>> THEN <<>> ELSE Head(ps) \o Flatten(Tail(ps))

SeqsUpTo(S, n) == UNION {[1..k -> S] : k \in 0..n}

Names == SeqsUpTo(NameChars, MaxNameLen)

Templates == {Flatten(ps) : ps \in SeqsUpTo(TemplatePieces, MaxPieces)}

(***************************************************************************)
(* What an undefined read can produce: the process faults, or the read     *)
(* yields some bytes that happen to be there.                              *)
(***************************************************************************)
UBOutcomes ==
  {[fault |-> TRUE, bytes |-> <<>>],
   [fault |-> FALSE, bytes |-> <<>>],
   [fault |-> FALSE, bytes |-> <<"?">>]}

ViewTails == {<<NUL>>, <<"b">>}

(***************************************************************************)
(* The globals of the three files.                                         *)
(***************************************************************************)
\* mutant of MOE_DIALOGUE_1: a dialogue with a single placeholder
MOE_DIALOGUE_1_OneSlot ==
  << "H", "e", "y", ",", " ", "%", ".", "*", "s", "!", NL >>

MOE_DIALOGUE_1 ==
  <<
    "H", "e", "y", ",", " ", "i", "s", " ", "t", "h", "e", "r", "e", " ",
    "a", " ", "%", ".", "*", "s", " ", "h", "e", "r", "e", "?", " ", "H",
    "e", "y", ",", " ", "e", "v", "e", "r", "y", "b", "o", "d", "y", ",",
    " ", "I", " ", "w", "a", "n", "n", "a", " ", "%", ".", "*", "s", "!", NL >>

MOE_DIALOGUE_2 ==
  <<
    "U", "h", ",", " ", "%", ".", "*", "s", "?", " ", "H", "e", "y", ",",
    " ", "I", "'", "m", " ", "l", "o", "o", "k", "i", "n", " ", "f", "o",
    "r", " ", "%", ".", "*", "s", "!", NL >>

PRANK_NAME_1 ==
  <<
    "S", "e", "y", "m", "o", "u", "r", " ", "B", "u", "t", "z" >>

PRANK_NAME_2 ==
  <<
    "A", "m", "a", "n", "d", "a", " ", "H", "u", "g", "g", "i", "n", "k",
    "i", "s", "s" >>

(***************************************************************************)
(* C strings.                                                              *)
(***************************************************************************)
\* storage of a string literal: its characters and the terminator
Literal(s) == s \o <<NUL>>

HasNul(buf) == \E i \in 1..Len(buf) : buf[i] = NUL

\* number of bytes before the first NUL (the whole buffer when none)
strlen(buf) ==
  IF HasNul(buf)
  THEN (CHOOSE i \in 1..Len(buf) :
          buf[i] = NUL /\ \A j \in 1..(i - 1) : buf[j] # NUL) - 1
  ELSE Len(buf)

\* mutant of strchr: the last c instead of the first (strrchr)
strchrLast(buf, c) ==
  LET n == strlen(buf)
      hits == {i \in 1..n : buf[i] = c}
  IN  IF hits = {} THEN NULL
      ELSE SubSeq(buf, CHOOSE i \in hits : \A j \in hits : j <= i, Len(buf))

\* pointer to the first c before the terminator, NULL when there is none
strchr(buf, c) ==
  LET n == strlen(buf)
      hits == {i \in 1..n : buf[i] = c}
  IN  IF hits = {} THEN NULL
      ELSE SubSeq(buf, CHOOSE i \in hits : \A j \in hits : i <= j, Len(buf))

\* mutant of PtrDiff: the operands exchanged
PtrDiffReversed(p, q) == Len(p) - Len(q)

\* p - q for two pointers into the same buffer
PtrDiff(p, q) == Len(q) - Len(p)

IsEmpty(string) == string = NULL \/ string[1] = NUL

INT_MAX == 2147483647

\* a length narrowed to int (two's complement, 32 bits)
ToInt(n) == IF n <= INT_MAX THEN n ELSE n - INT_MAX - INT_MAX - 2

(***************************************************************************)
(* eastl::string and eastl::string_view.                                   *)
(***************************************************************************)
npos == -1

\* eastl::string(const char*): copies the bytes before the terminator
EastlString(p) ==
  [data |-> SubSeq(p, 1, strlen(p)) \o <<NUL>>, size |-> strlen(p)]

\* eastl::string_view(const char*): borrows the buffer, length by scan
StringView(p) == [data |-> p, size |-> strlen(p)]

\* find(' ') of both types: first offset below size holding c, else npos
find(s, c) ==
  LET hits == {i \in 1..s.size : s.data[i] = c}
  IN  IF hits = {} THEN npos
      ELSE (CHOOSE i \in hits : \A j \in hits : i <= j) - 1

\* mutant of StringSubstr: the copy takes the byte at pos + n as well
StringSubstrInclusive(s, pos, n) ==
  LET m == IF n + 1 < s.size - pos THEN n + 1 ELSE s.size - pos
  IN  [data |-> SubSeq(s.data, pos + 1, pos + m) \o <<NUL>>, size |-> m]

\* eastl::string::substr: an owning copy with its own terminator
StringSubstr(s, pos, n) ==
  LET m == IF n < s.size - pos THEN n ELSE s.size - pos
  IN  [data |-> SubSeq(s.data, pos + 1, pos + m) \o <<NUL>>, size |-> m]

\* eastl::string_view::substr: the same storage with a shorter length
ViewSubstr(s, pos, n) ==
  LET m == IF n < s.size - pos THEN n ELSE s.size - pos
  IN  [data |-> SubSeq(s.data, pos + 1, Len(s.data)), size |-> m]

(***************************************************************************)
(* printf, restricted to the "%.*s" directive the dialogues use.           *)
(* args is the sequence of (length, bytes) pairs after the format; ub is   *)
(* the outcome of any undefined read.                                      *)
(***************************************************************************)
IsPlaceholder(fmt, i) ==
  i + 3 <= Len(fmt) /\ SubSeq(fmt, i, i + 3) = Placeholder

\* mutant of EmitCount: "%s", the precision is not honoured
EmitCountWholeString(prec, bytes) == strlen(bytes)

\* "%.*s" with precision prec: at most prec bytes, stopping at a NUL; a
\* negative precision is taken as if omitted
EmitCount(prec, bytes) ==
  IF prec < 0 \/ prec > strlen(bytes) THEN strlen(bytes) ELSE prec

\* the directive has to read a byte that is not in the buffer
ReadsPastEnd(prec, bytes) ==
  ~HasNul(bytes) /\ (prec < 0 \/ prec > Len(bytes))

Faulted(acc, k, oob) ==
  [out |-> acc, argsRead |-> k, status |-> "crashed", oob |-> oob]

\* offset of the first directive at or after i and before the terminator,
\* 0 when the rest of the format is ordinary characters
NextDirective(fmt, i) ==
  LET D == {p \in i..strlen(fmt) : IsPlaceholder(fmt, p)}
  IN  IF D = {} THEN 0 ELSE CHOOSE p \in D : \A q \in D : p <= q

\* the scan of the format from offset i, k pairs taken and acc written so
\* far: ordinary characters are copied up to the next directive, the
\* directive takes the next pair, and the scan ends at the terminator
RECURSIVE Vprintf(_, _, _, _, _, _)
Vprintf(fmt, args, ub, i, k, acc) ==
  LET p == NextDirective(fmt, i)
  IN  IF ~HasNul(fmt) THEN Faulted(acc, k, TRUE)
      ELSE IF p = 0
      THEN [out |-> acc \o SubSeq(fmt, i, strlen(fmt)), argsRead |-> k,
            status |-> "returned", oob |-> FALSE]
      ELSE LET text == acc \o SubSeq(fmt, i, p - 1)
               next == p + Len(Placeholder)
           IN  IF k + 1 <= Len(args)
               THEN LET a == args[k + 1]
                    IN  IF ReadsPastEnd(a.length, a.bytes)
                        THEN IF ub.fault
                             THEN Faulted(text, k + 1, TRUE)
                             ELSE [Vprintf(fmt, args, ub, next, k + 1,
                                           text \o a.bytes \o ub.bytes)
                                     EXCEPT !.oob = TRUE]
                        ELSE Vprintf(fmt, args, ub, next, k + 1,
                                     text \o SubSeq(a.bytes, 1,
                                                    EmitCount(a.length, a.bytes)))
               ELSE IF ub.fault
                    THEN Faulted(text, k + 1, FALSE)
                    ELSE Vprintf(fmt, args, ub, next, k + 1, text \o ub.bytes)

printf(fmt, args, ub) == Vprintf(fmt, args, ub, 1, 0, <<>>)

(***************************************************************************)
(* PrankMoe of each file: the record of one call.                          *)
(***************************************************************************)
CallRecord(localised, fullName, args, r) ==
  [localised |-> localised, fullName |-> fullName, args |-> args,
   out |-> r.out, argsRead |-> r.argsRead, status |-> r.status,
   oob |-> r.oob]

\* mutant of CStringFormat: the result of strchr is used unchecked
CStringFormatUnchecked(localised, fullName, ub) ==
  LET delimiter == strchr(fullName, " ")
      firstNameLength == ToInt(PtrDiff(delimiter, fullName))
      args == <<[length |-> firstNameLength, bytes |-> fullName],
                [length |-> ToInt(strlen(fullName)), bytes |-> fullName]>>
  IN  CallRecord(localised, fullName, args, printf(localised, args, ub))

CStringFormat(localised, fullName, ub) ==
  LET delimiter == strchr(fullName, " ")
      firstNameLength ==
        ToInt(IF delimiter # NULL THEN PtrDiff(delimiter, fullName)
                                  ELSE strlen(fullName))
      args == <<[length |-> firstNameLength, bytes |-> fullName],
                [length |-> ToInt(strlen(fullName)), bytes |-> fullName]>>
  IN  CallRecord(localised, fullName, args, printf(localised, args, ub))

\* strchr and strlen of a null pointer are undefined: the call faults
\* before printf, or goes on with whatever bytes the read finds
PrankMoeCString(localised, fullName, ub) ==
  IF fullName = NULL
  THEN IF ub.fault
       THEN CallRecord(localised, fullName, <<>>, Faulted(<<>>, 0, TRUE))
       ELSE [CStringFormat(localised, ub.bytes \o <<NUL>>, ub)
               EXCEPT !.fullName = NULL, !.oob = TRUE]
  ELSE CStringFormat(localised, fullName, ub)

PrankMoeEASTLString(localised, fullName, ub) ==
  LET delimiterPosition == find(fullName, " ")
      outputName == IF delimiterPosition # npos
                    THEN StringSubstr(fullName, 0, delimiterPosition)
                    ELSE fullName
      args == <<[length |-> ToInt(outputName.size),
                 bytes |-> outputName.data],
                [length |-> ToInt(fullName.size), bytes |-> fullName.data]>>
  IN  CallRecord(localised, fullName, args,
                 printf(localised.data, args, ub))

\* mutant of PrankMoeStringView: the two pairs handed over in the other
\* order
PrankMoeStringViewSwapped(localised, fullName, ub) ==
  LET delimiterPosition == find(fullName, " ")
      outputName == IF delimiterPosition # npos
                    THEN ViewSubstr(fullName, 0, delimiterPosition)
                    ELSE fullName
      args == <<[length |-> ToInt(fullName.size), bytes |-> fullName.data],
                [length |-> ToInt(outputName.size),
                 bytes |-> outputName.data]>>
  IN  CallRecord(localised, fullName, args,
                 printf(localised.data, args, ub))

PrankMoeStringView(localised, fullName, ub) ==
  LET delimiterPosition == find(fullName, " ")
      outputName == IF delimiterPosition # npos
                    THEN ViewSubstr(fullName, 0, delimiterPosition)
                    ELSE fullName
      args == <<[length |-> ToInt(outputName.size),
                 bytes |-> outputName.data],
                [length |-> ToInt(fullName.size), bytes |-> fullName.data]>>
  IN  CallRecord(localised, fullName, args,
                 printf(localised.data, args, ub))

PrankMoe(v, localised, fullName, ub) ==
  CASE v = "CString" -> PrankMoeCString(localised, fullName, ub)
    [] v = "EASTLString" -> PrankMoeEASTLString(localised, fullName, ub)
    [] v = "StringView" -> PrankMoeStringView(localised, fullName, ub)

(***************************************************************************)
(* State.                                                                  *)
(*   pc[v]       where the program of variant v is                         *)
(*   frame[v]    the parameters of its PrankMoe call and where it returns  *)
(*   calls[v]    the calls of PrankMoe it has finished, oldest first       *)
(*   stdout[v]   the bytes it has written to standard output               *)
(*   exitCode[v] the exit status of main, once it has returned             *)
(***************************************************************************)
NoFrame == [localised |-> NULL, fullName |-> NULL, ret |-> "none"]

\* the value a caller passes for a dialogue held as characters t
TemplateArg(v, t) ==
  CASE v = "CString" -> Literal(t)
    [] v = "EASTLString" -> EastlString(Literal(t))
    [] v = "StringView" -> StringView(Literal(t))

\* the value a caller passes for a name held as characters n; tail is the
\* memory that follows the characters a view borrows
NameArg(v, n, tail) ==
  CASE v = "CString" -> Literal(n)
    [] v = "EASTLString" -> EastlString(Literal(n))
    [] v = "StringView" -> [data |-> n \o tail, size |-> Len(n)]

\* PrankMoe of variant v runs on its frame and returns to its caller
Run(v) ==
  /\ pc[v] = "PrankMoe"
  /\ \E ub \in UBOutcomes :
       LET r == PrankMoe(v, frame[v].localised, frame[v].fullName, ub)
       IN  /\ calls' = [calls EXCEPT ![v] = Append(@, r)]
           /\ stdout' = [stdout EXCEPT ![v] = @ \o r.out]
           /\ pc' = [pc EXCEPT ![v] = IF r.status = "crashed"
                                      THEN "crashed" ELSE frame[v].ret]
  /\ frame' = [frame EXCEPT ![v] = NoFrame]
  /\ UNCHANGED exitCode

RunCString == Run("CString")

RunEASTLString == Run("EASTLString")

RunStringView == Run("StringView")

(***************************************************************************)
(* Spec: one call of each PrankMoe on the same dialogue and name, drawn    *)
(* from the bounded sets.  Only the pointer variant can be handed a null   *)
(* name.                                                                   *)
(***************************************************************************)
Init ==
  /\ \E t \in Templates, n \in Names, tail \in ViewTails, absent \in BOOLEAN :
       /\ frame = [v \in Variants |->
                    IF absent
                    THEN IF v = "CString"
                         THEN [localised |-> TemplateArg(v, t),
                               fullName |-> NULL, ret |-> "caller"]
                         ELSE NoFrame
                    ELSE [localised |-> TemplateArg(v, t),
                          fullName |-> NameArg(v, n, tail),
                          ret |-> "caller"]]
       /\ pc = [v \in Variants |->
                 IF absent /\ v # "CString" THEN "caller" ELSE "PrankMoe"]
  /\ calls = [v \in Variants |-> <<>>]
  /\ stdout = [v \in Variants |-> <<>>]
  /\ exitCode = [v \in Variants |-> <<>>]

Next == RunCString \/ RunEASTLString \/ RunStringView

Spec == Init /\ [][Next]_vars

(***************************************************************************)
(* MainSpec: the three programs, each running its main.                    *)
(***************************************************************************)
\* PRANK_NAME_1 is a const char* in all three files; PRANK_NAME_2 is a
\* const char*, an eastl::string and an eastl::string_view
Name1Arg(v) ==
  CASE v = "CString" -> Literal(PRANK_NAME_1)
    [] v = "EASTLString" -> EastlString(Literal(PRANK_NAME_1))
    [] v = "StringView" -> StringView(Literal(PRANK_NAME_1))

\* mutant of Name2Arg: the second call is handed the first name again
Name2ArgRepeated(v) ==
  CASE v = "CString" -> Literal(PRANK_NAME_1)
    [] v = "EASTLString" -> EastlString(Literal(PRANK_NAME_1))
    [] v = "StringView" -> StringView(Literal(PRANK_NAME_1))

Name2Arg(v) ==
  CASE v = "CString" -> Literal(PRANK_NAME_2)
    [] v = "EASTLString" -> EastlString(Literal(PRANK_NAME_2))
    [] v = "StringView" -> StringView(Literal(PRANK_NAME_2))

FirstCall(v) ==
  /\ pc[v] = "main1"
  /\ frame' = [frame EXCEPT ![v] =
                 [localised |-> TemplateArg(v, MOE_DIALOGUE_1),
                  fullName |-> Name1Arg(v), ret |-> "main2"]]
  /\ pc' = [pc EXCEPT ![v] = "PrankMoe"]
  /\ UNCHANGED <<calls, stdout, exitCode>>

SecondCall(v) ==
  /\ pc[v] = "main2"
  /\ frame' = [frame EXCEPT ![v] =
                 [localised |-> TemplateArg(v, MOE_DIALOGUE_2),
                  fullName |-> Name2Arg(v), ret |-> "main3"]]
  /\ pc' = [pc EXCEPT ![v] = "PrankMoe"]
  /\ UNCHANGED <<calls, stdout, exitCode>>

Return0(v) ==
  /\ pc[v] = "main3"
  /\ exitCode' = [exitCode EXCEPT ![v] = <<0>>]
  /\ pc' = [pc EXCEPT ![v] = "exited"]
  /\ UNCHANGED <<frame, calls, stdout>>

MainFirstCall == \E v \in Variants : FirstCall(v)

MainSecondCall == \E v \in Variants : SecondCall(v)

MainReturn == \E v \in Variants : Return0(v)

MainInit ==
  /\ pc = [v \in Variants |-> "main1"]
  /\ frame = [v \in Variants |-> NoFrame]
  /\ calls = [v \in Variants |-> <<>>]
  /\ stdout = [v \in Variants |-> <<>>]
  /\ exitCode = [v \in Variants |-> <<>>]

MainNext ==
  \/ MainFirstCall
  \/ MainSecondCall
  \/ MainReturn
  \/ RunCString
  \/ RunEASTLString
  \/ RunStringView

MainSpec == MainInit /\ [][MainNext]_vars

\* a program that has not exited keeps running: while some program has a
\* step to take, a step is eventually taken
MainFairSpec == MainSpec /\ WF_vars(MainNext)

(***************************************************************************)
(* Vocabulary of the properties.                                           *)
(***************************************************************************)
\* first n elements of s, marking any position s does not have
Prefix(s, n) == [i \in 1..n |-> IF i <= Len(s) THEN s[i] ELSE "<past end>"]

\* the characters a parameter of variant v denotes
TextOf(v, x) ==
  IF v = "CString" THEN Prefix(x, strlen(x)) ELSE Prefix(x.data, x.size)

Finished == {vk \in Variants \X (1..2) : vk[2] <= Len(calls[vk[1]])}

Call(vk) == calls[vk[1]][vk[2]]

\* the call was handed a null pointer for the name
Absent(vk) == vk[1] = "CString" /\ Call(vk).fullName = NULL

Present == {vk \in Finished : ~Absent(vk)}

NameOf(vk) == TextOf(vk[1], Call(vk).fullName)

TemplateOf(vk) == TextOf(vk[1], Call(vk).localised)

HasSpace(name) == \E i \in 1..Len(name) : name[i] = " "

\* what the first pair handed to printf denotes
Fragment(c) == Prefix(c.args[1].bytes, c.args[1].length)

PlaceholdersOf(t) == {i \in 1..Len(t) : IsPlaceholder(t, i)}

\* C1: for a non-empty name with a space, the first pair of every variant
\* is the prefix before the first space: its length is the offset of that
\* space, it holds no space, and it is shorter than the name.
C1_FirstNameStopsAtFirstSpace ==
  \A vk \in Present :
    LET c == Call(vk)
        name == NameOf(vk)
    IN  (name # <<>> /\ HasSpace(name)) =>
          \E i \in 1..Len(name) :
            /\ name[i] = " "
            /\ \A j \in 1..(i - 1) : name[j] # " "
            /\ c.args[1].length = i - 1
            /\ Fragment(c) = SubSeq(name, 1, i - 1)
            /\ ~HasSpace(Fragment(c))
            /\ c.args[1].length < Len(name)

\* every variant has split a name with two spaces whose first name is not
\* empty
C1_Witness ==
  \A v \in Variants :
    /\ <<v, 1>> \in Present
    /\ NameOf(<<v, 1>>) = <<"a", " ", " ">>
    /\ Fragment(Call(<<v, 1>>)) = <<"a">>

\* C2: for a non-empty name without a space, the first pair of every
\* variant is the whole name, and its length is the name's length (the
\* distance to the terminator in the pointer variant).
C2_NoSpaceKeepsWholeName ==
  \A vk \in Present :
    LET c == Call(vk)
        name == NameOf(vk)
    IN  (name # <<>> /\ ~HasSpace(name)) =>
          /\ c.args[1].length = Len(name)
          /\ Fragment(c) = name
          /\ vk[1] = "CString" => c.args[1].length = strlen(c.fullName)

C2_Witness ==
  \A v \in Variants :
    /\ <<v, 1>> \in Present
    /\ NameOf(<<v, 1>>) = <<"a", "b", "a">>
    /\ Call(<<v, 1>>).args[1].length = 3

\* C3 as stated: a call with an empty or null name or template writes
\* nothing and returns normally.
C3_EmptyInputIsGuarded ==
  \A vk \in Finished :
    LET c == Call(vk)
        empty == IF vk[1] = "CString"
                 THEN IsEmpty(c.fullName) \/ IsEmpty(c.localised)
                 ELSE c.fullName.size = 0 \/ c.localised.size = 0
    IN  empty => (c.out = <<>> /\ c.status = "returned")

(***************************************************************************)
(* Rendering, stated by positions.  The k-th placeholder of a template is  *)
(* paired when printf was handed a k-th pair.                              *)
(***************************************************************************)
Rank(t, p) == Cardinality({q \in PlaceholdersOf(t) : q <= p})

Paired(t, args) == {p \in PlaceholdersOf(t) : Rank(t, p) <= Len(args)}

\* offset of the first placeholder without a pair, past the end when every
\* placeholder has one
FirstUnpaired(t, args) ==
  LET U == PlaceholdersOf(t) \ Paired(t, args)
  IN  IF U = {} THEN Len(t) + 1 ELSE CHOOSE p \in U : \A q \in U : p <= q

RECURSIVE Growth(_, _, _)
Growth(t, args, S) ==
  IF S = {} THEN 0
  ELSE LET p == CHOOSE q \in S : TRUE
       IN  args[Rank(t, p)].length - Len(Placeholder)
             + Growth(t, args, S \ {p})

\* how far position i of the template has moved in the output
Shift(t, args, i) == Growth(t, args, {p \in Paired(t, args) : p < i})

InPlaceholder(t, i) == \E p \in PlaceholdersOf(t) : p <= i /\ i < p + Len(Placeholder)

\* C4: in every call that reaches printf, the k-th placeholder is replaced
\* by exactly the first `length` bytes of the k-th pair, also when the
\* pair's bytes are longer, and the template text around the placeholders
\* is emitted unchanged; all of it up to the first placeholder that has no
\* pair, which is the whole output when every placeholder has one.
C4_PlaceholdersTakePairsInOrder ==
  \A vk \in Present :
    LET c == Call(vk)
        t == TemplateOf(vk)
        stop == FirstUnpaired(t, c.args)
    IN  /\ \A p \in Paired(t, c.args) :
             LET a == c.args[Rank(t, p)]
                 at == p + Shift(t, c.args, p)
             IN  /\ at + a.length - 1 <= Len(c.out)
                 /\ SubSeq(c.out, at, at + a.length - 1)
                      = Prefix(a.bytes, a.length)
        /\ \A i \in 1..(stop - 1) :
             ~InPlaceholder(t, i) =>
               /\ i + Shift(t, c.args, i) <= Len(c.out)
               /\ c.out[i + Shift(t, c.args, i)] = t[i]
        /\ Len(c.out) >= stop - 1 + Shift(t, c.args, stop)
        /\ stop = Len(t) + 1 =>
             /\ c.status = "returned"
             /\ c.argsRead = Cardinality(PlaceholdersOf(t))
             /\ Len(c.out) = Len(t) + Shift(t, c.args, stop)

\* the pointer variant has rendered "%.*ss%.*s" for the name "a b": the
\* first placeholder took one byte of a three byte buffer
C4_Witness ==
  /\ <<"CString", 1>> \in Present
  /\ TemplateOf(<<"CString", 1>>) = Placeholder \o <<"s">> \o Placeholder
  /\ NameOf(<<"CString", 1>>) = <<"a", " ", "b">>
  /\ Call(<<"CString", 1>>).args[1].length = 1
  /\ strlen(Call(<<"CString", 1>>).args[1].bytes) = 3
  /\ Call(<<"CString", 1>>).out = <<"a", "s", "a", " ", "b">>

\* C5: on the same dialogue and name the three variants hand printf the
\* same (length, first `length` bytes) pairs in the same order, and write
\* the same bytes whenever every placeholder of the dialogue has a pair.
C5_RepresentationTransparency ==
  \A vk \in Present : \A wk \in Present :
    LET c == Call(vk)
        d == Call(wk)
    IN  (vk[2] = wk[2]) =>
          /\ Len(c.args) = Len(d.args)
          /\ \A k \in 1..Len(c.args) :
               /\ c.args[k].length = d.args[k].length
               /\ Prefix(c.args[k].bytes, c.args[k].length)
                    = Prefix(d.args[k].bytes, d.args[k].length)
          /\ Cardinality(PlaceholdersOf(TemplateOf(vk))) <= Len(c.args) =>
               (c.out = d.out /\ c.status = d.status)

\* all three variants have rendered the same two-placeholder dialogue for a
\* name with a space, the view over storage without a terminator
C5_Witness ==
  /\ \A v \in Variants :
       /\ <<v, 1>> \in Present
       /\ NameOf(<<v, 1>>) = <<"b", " ", "a">>
       /\ TemplateOf(<<v, 1>>) = Placeholder \o <<"s">> \o Placeholder
       /\ Call(<<v, 1>>).out = <<"b", "s", "b", " ", "a">>
  /\ ~HasNul(Call(<<"StringView", 1>>).fullName.data)

\* the longest prefix of name that holds no space
FirstNameOf(name) ==
  LET n == CHOOSE m \in 0..Len(name) :
             /\ \A j \in 1..m : name[j] # " "
             /\ m < Len(name) => name[m + 1] = " "
  IN  SubSeq(name, 1, n)

\* C6: for a dialogue with two placeholders the output is the dialogue
\* with the first name in the first slot and the full name in the second.
C6_FirstNameThenFullName ==
  \A vk \in Present :
    LET c == Call(vk)
        t == TemplateOf(vk)
        name == NameOf(vk)
        P == PlaceholdersOf(t)
    IN  Cardinality(P) = 2 =>
          LET p1 == CHOOSE p \in P : \A q \in P : p <= q
              p2 == CHOOSE p \in P : \A q \in P : q <= p
          IN  /\ c.status = "returned"
              /\ c.out = SubSeq(t, 1, p1 - 1) \o FirstNameOf(name)
                           \o SubSeq(t, p1 + Len(Placeholder), p2 - 1) \o name
                           \o SubSeq(t, p2 + Len(Placeholder), Len(t))

C6_Witness ==
  \A v \in Variants :
    /\ <<v, 1>> \in Present
    /\ NameOf(<<v, 1>>) = <<"a", " ", "b">>
    /\ TemplateOf(<<v, 1>>) = <<"s">> \o Placeholder \o Placeholder
    /\ Call(<<v, 1>>).out = <<"s", "a", "a", " ", "b">>

\* C7 as stated: when the dialogue's placeholder count differs from the
\* number of pairs handed over, the call reports ArgumentCountMismatch and
\* printf reads no pair beyond those supplied.
C7_MismatchIsReported ==
  \A vk \in Present :
    LET c == Call(vk)
    IN  Cardinality(PlaceholdersOf(TemplateOf(vk))) # Len(c.args) =>
          /\ c.status = "ArgumentCountMismatch"
          /\ c.argsRead <= Len(c.args)

\* C8: every call hands printf two pairs whose lengths are at least 0 and
\* at most the bytes available behind the paired pointer, the second
\* length is the full name's length, and printf reads no byte past the
\* storage of a pair.
C8_LengthsWithinBacking ==
  \A vk \in Present :
    LET c == Call(vk)
    IN  /\ Len(c.args) = 2
        /\ \A k \in 1..2 :
             /\ c.args[k].length >= 0
             /\ c.args[k].length <= strlen(c.args[k].bytes)
             /\ ~ReadsPastEnd(c.args[k].length, c.args[k].bytes)
        /\ c.args[2].length = Len(NameOf(vk))
        /\ Prefix(c.args[2].bytes, c.args[2].length) = NameOf(vk)
        /\ ~c.oob

\* the pointer variant paired a one byte first name with the three byte
\* name buffer, and the view variant ran over storage without a terminator
C8_Witness ==
  /\ \A v \in Variants : <<v, 1>> \in Present
  /\ Call(<<"CString", 1>>).args[1].length = 1
  /\ strlen(Call(<<"CString", 1>>).args[1].bytes) = 3
  /\ ~HasNul(Call(<<"StringView", 1>>).args[2].bytes)
  /\ Call(<<"StringView", 1>>).args[2].length = 3
  /\ Call(<<"StringView", 1>>).argsRead = 2

(***************************************************************************)
(* The programs.                                                           *)
(***************************************************************************)
ExpectedOutput1 ==
  <<
    "H", "e", "y", ",", " ", "i", "s", " ", "t", "h", "e", "r", "e", " ",
    "a", " ", "S", "e", "y", "m", "o", "u", "r", " ", "h", "e", "r", "e",
    "?", " ", "H", "e", "y", ",", " ", "e", "v", "e", "r", "y", "b", "o",
    "d", "y", ",", " ", "I", " ", "w", "a", "n", "n", "a", " ", "S", "e",
    "y", "m", "o", "u", "r", " ", "B", "u", "t", "z", "!", NL >>

ExpectedOutput2 ==
  <<
    "U", "h", ",", " ", "A", "m", "a", "n", "d", "a", "?", " ", "H", "e",
    "y", ",", " ", "I", "'", "m", " ", "l", "o", "o", "k", "i", "n", " ",
    "f", "o", "r", " ", "A", "m", "a", "n", "d", "a", " ", "H", "u", "g",
    "g", "i", "n", "k", "i", "s", "s", "!", NL >>

\* C9: in every call main makes, finished or in progress, the dialogue has
\* as many placeholders as PrankMoe hands pairs to printf, two, and printf
\* takes the pairs in the placeholders' order: the first name for the
\* first, the full name for the second.
C9_MainTemplatesMatchTwoPairs ==
  /\ \A v \in Variants :
       pc[v] = "PrankMoe" =>
         Cardinality(PlaceholdersOf(TextOf(v, frame[v].localised))) = 2
  /\ \A vk \in Finished :
       LET c == Call(vk)
           t == TemplateOf(vk)
           P == PlaceholdersOf(t)
       IN  /\ Cardinality(P) = 2
           /\ Len(c.args) = 2
           /\ c.argsRead = 2
           /\ \A p \in P :
                LET a == c.args[Rank(t, p)]
                    at == p + Shift(t, c.args, p)
                IN  SubSeq(c.out, at, at + a.length - 1)
                      = IF Rank(t, p) = 1 THEN FirstNameOf(NameOf(vk))
                                          ELSE NameOf(vk)

\* every program has made both of its calls
C9_Witness ==
  \A v \in Variants :
    /\ Len(calls[v]) = 2
    /\ Call(<<v, 2>>).args[1].length = 6
    /\ Call(<<v, 2>>).args[2].length = 17

\* C10: every program makes its two calls in the order (MOE_DIALOGUE_1,
\* PRANK_NAME_1), (MOE_DIALOGUE_2, PRANK_NAME_2) and no others, its output
\* is the first call's output followed by the second's, the second call
\* writes what it writes on its own, and every program ends with exit
\* code 0 after both calls.
C10_TwoCallsInOrderThenExit0 ==
  /\ [](\A v \in Variants :
          /\ Len(calls[v]) <= 2
          /\ pc[v] # "crashed"
          /\ \A k \in 1..Len(calls[v]) :
               /\ TemplateOf(<<v, k>>)
                    = IF k = 1 THEN MOE_DIALOGUE_1 ELSE MOE_DIALOGUE_2
               /\ NameOf(<<v, k>>)
                    = IF k = 1 THEN PRANK_NAME_1 ELSE PRANK_NAME_2
               /\ Call(<<v, k>>).status = "returned"
               /\ Call(<<v, k>>).out
                    = IF k = 1 THEN ExpectedOutput1 ELSE ExpectedOutput2
          /\ stdout[v] = Flatten([k \in 1..Len(calls[v]) |-> Call(<<v, k>>).out])
          /\ exitCode[v] # <<>> =>
               /\ exitCode[v] = <<0>>
               /\ pc[v] = "exited"
               /\ Len(calls[v]) = 2)
  /\ <>(\A v \in Variants : pc[v] = "exited" /\ exitCode[v] = <<0>>)

\* every program has exited after writing both dialogues
C10_Witness ==
  \A v \in Variants :
    /\ pc[v] = "exited"
    /\ exitCode[v] = <<0>>
    /\ stdout[v] = ExpectedOutput1 \o ExpectedOutput2

====
